---- MODULE Spec2Model ----
(***************************************************************************)
(* Virtual Painter: the per-frame gesture handling of VirtualPainter.py    *)
(* (selection mode, draw mode, clear check, header/canvas merge) and the   *)
(* finger classifier of HandTrackingModule.py.                             *)
(*                                                                         *)
(* Images are followed at a fixed set of probe pixels (Probes): every      *)
(* OpenCV call of the loop is applied to exactly those pixels.  Pixels are *)
(* BGR triples <<b, g, r>>, points are <<x, y>> and a landmark is          *)
(* <<id, x, y>> as in getLandmarkPositions.  Python's 0-based indexing is  *)
(* kept through At(list, i).                                               *)
(***************************************************************************)
EXTENDS Integers, Sequences, FiniteSets, TLC

VARIABLES
    landmark_list,  \* hand_detector.landmarkList after getLandmarkPositions
    camera,         \* img after cap.read/flip/drawLandmarks (lines 32-37)
    img,            \* img after the merge (line 80), the frame that is shown;
                    \* <<>> before the first frame
    img_canvas,     \* the stroke canvas
    last,           \* <<last_x, last_y>>; <<0, 0>> is the "no last point" value
    draw_color,     \* the active colour (BGR)
    header,         \* index into overlay_list of the selected header image
    lineCalls,      \* history: the cv2.line calls on img_canvas of this frame
    cleared,        \* history: the canvas the clear branch (line 72) wiped in
                    \* this frame; <<>> when it did not run
    pen,            \* history: the most recent frame with a hand detected
    clearedTwice    \* history: the clear branch ran in this frame and in
                    \* the frame before it

vars == <<landmark_list, camera, img, img_canvas, last, draw_color, header,
          lineCalls, cleared, pen, clearedTwice>>

----------------------------------------------------------------------------
(* Program constants *)

WIDTH == 1280
HEIGHT == 720
POINTER_THICKNESS == 20
tipIds == <<4, 8, 12, 16, 20>>

Black == <<0, 0, 0>>
NoPoint == <<0, 0>>

\* list[i] with Python's 0-based index
At(list, i) == list[i + 1]

----------------------------------------------------------------------------
(* Inputs of the model: fingertip positions, hand poses, camera frames *)

\* Index fingertip positions: the sentinel position, one inside each toolbar
\* hit-region, and two in the drawing area.
Points == { <<0, 0>>, <<100, 50>>, <<400, 50>>, <<800, 50>>, <<1100, 50>>,
            <<280, 300>>, <<320, 300>> }

\* Further index fingertip positions, shown in the two-finger pose only: the
\* innermost corners of hit-regions 0 and 3, and positions on the border of
\* hit-region 0 (x = 60, and y = 100).
EdgePoints == { <<61, 99>>, <<1249, 0>>, <<60, 50>>, <<100, 100>> }

\* The pixels at which images are followed: one inside the header rectangle
\* (and inside hit-region 0), one in the drawing area half way between the
\* two drawing-area fingertip positions.
Probes == { <<100, 50>>, <<300, 300>> }

\* Intended finger states <<thumb, index, middle, ring, pinky>> of the poses.
Poses == { <<0, 0, 0, 0, 0>>, <<0, 1, 0, 0, 0>>, <<1, 1, 0, 0, 0>>,
           <<0, 1, 1, 0, 0>>, <<0, 1, 1, 1, 1>>, <<1, 1, 1, 1, 1>> }

\* The pixel value of the (uniform) camera frame that shows a hand in pose
\* `pose` at p; every scene has its own.
CameraPixel(pose, p) ==
    <<(p[1] \div 5) % 256, (3 * p[2] + 7) % 256,
      40 * (pose[1] + pose[2] + pose[3] + pose[4] + pose[5]) + 15>>

\* The camera frames that show no hand.
EmptyCameraPixels == { <<255, 255, 255>>, <<0, 0, 0>> }

\* A 21-landmark hand in pose `pose` with its index fingertip at p.  Hands in
\* the right half of the frame are mirrored, so that both thumb branches of
\* fingersUp are taken.
Hand(pose, p) ==
    LET s == IF p[1] < WIDTH \div 2 THEN 1 ELSE -1
        joint(up) == IF up = 1 THEN 40 ELSE -40
        tx == p[1] - s * 60
        xy(id) ==
            CASE id = 8  -> p
              [] id = 6  -> <<p[1], p[2] + joint(pose[2])>>
              [] id = 12 -> <<p[1] + s * 40, p[2] - 10>>
              [] id = 10 -> <<p[1] + s * 40, p[2] - 10 + joint(pose[3])>>
              [] id = 16 -> <<p[1] + s * 80, p[2]>>
              [] id = 14 -> <<p[1] + s * 80, p[2] + joint(pose[4])>>
              [] id = 20 -> <<p[1] + s * 120, p[2] + 20>>
              [] id = 18 -> <<p[1] + s * 120, p[2] + 20 + joint(pose[5])>>
              [] id = 4  -> <<tx, p[2] + 60>>
              [] id = 3  -> <<IF pose[1] = 1 THEN tx + s * 20 ELSE tx - s * 20,
                              p[2] + 80>>
              [] OTHER   -> <<p[1] + s * 30, p[2] + 100 + id>>
    IN  [i \in 1..21 |-> <<i - 1, xy(i - 1)[1], xy(i - 1)[2]>>]

\* A 21-landmark hand with its index fingertip at (300, 300), given by the
\* offsets d = <<index, middle, ring, pinky>> of each finger's landmark two
\* below the tip (y of that landmark minus y of the tip) and by the thumb's
\* x-coordinates t = <<x of landmark 4, x of landmark 3, x of landmark 20>>.
ClassifierHand(d, t) ==
    LET xy(id) ==
            CASE id = 8  -> <<300, 300>>
              [] id = 6  -> <<300, 300 + d[1]>>
              [] id = 12 -> <<340, 290>>
              [] id = 10 -> <<340, 290 + d[2]>>
              [] id = 16 -> <<380, 300>>
              [] id = 14 -> <<380, 300 + d[3]>>
              [] id = 20 -> <<t[3], 320>>
              [] id = 18 -> <<t[3], 320 + d[4]>>
              [] id = 4  -> <<t[1], 360>>
              [] id = 3  -> <<t[2], 380>>
              [] OTHER   -> <<300, 400 + id>>
    IN  [i \in 1..21 |-> <<i - 1, xy(i - 1)[1], xy(i - 1)[2]>>]

\* Offsets of the landmark two below a fingertip: above the tip, level with
\* it, below it.
JointOffsets == { -40, 0, 1 }

\* Thumb x-coordinates <<landmark 4, landmark 3, landmark 20>>: landmark 3 and
\* the pinky tip each left of, level with and right of the thumb tip.
ThumbCases == { <<50, x3, x20>> : x3 \in {40, 50, 60}, x20 \in {30, 50, 200} }

\* The hands shown to the classifier: every combination of finger offsets
\* with the thumb of the left-orientation example, and every thumb case with
\* the four fingers all down and all up.
ClassifierHands ==
    { ClassifierHand(d, <<50, 60, 200>>) : d \in [1..4 -> JointOffsets] }
    \cup { ClassifierHand(d, t) :
              d \in { <<-40, -40, -40, -40>>, <<1, 1, 1, 1>> }, t \in ThumbCases }

----------------------------------------------------------------------------
(* HandTrackingModule.py *)

\* fingersUp with <= for < in the four-finger comparison.
fingersUp_NonStrict(lmList) ==
    LET thumb ==
            IF At(lmList, At(tipIds, 0))[2] < At(lmList, At(tipIds, 4))[2]
            THEN IF At(lmList, At(tipIds, 0))[2] < At(lmList, At(tipIds, 0) - 1)[2]
                 THEN 1 ELSE 0
            ELSE IF At(lmList, At(tipIds, 0))[2] > At(lmList, At(tipIds, 0) - 1)[2]
                 THEN 1 ELSE 0
        finger(id) ==
            IF At(lmList, At(tipIds, id))[3] <= At(lmList, At(tipIds, id) - 2)[3]
            THEN 1 ELSE 0
    IN  <<thumb, finger(1), finger(2), finger(3), finger(4)>>

\* fingersUp with the right-hand thumb test only, whatever the orientation.
fingersUp_RightHandOnly(lmList) ==
    LET thumb ==
            IF At(lmList, At(tipIds, 0))[2] > At(lmList, At(tipIds, 0) - 1)[2]
            THEN 1 ELSE 0
        finger(id) ==
            IF At(lmList, At(tipIds, id))[3] < At(lmList, At(tipIds, id) - 2)[3]
            THEN 1 ELSE 0
    IN  <<thumb, finger(1), finger(2), finger(3), finger(4)>>

\* HandDetector.fingersUp: the thumb by x against landmark 3, in the branch
\* chosen by thumb tip against pinky tip; the other fingers by y of the tip
\* against y of the landmark two below it.
fingersUp(lmList) ==
    LET thumb ==
            IF At(lmList, At(tipIds, 0))[2] < At(lmList, At(tipIds, 4))[2]
            THEN IF At(lmList, At(tipIds, 0))[2] < At(lmList, At(tipIds, 0) - 1)[2]
                 THEN 1 ELSE 0
            ELSE IF At(lmList, At(tipIds, 0))[2] > At(lmList, At(tipIds, 0) - 1)[2]
                 THEN 1 ELSE 0
        finger(id) ==
            IF At(lmList, At(tipIds, id))[3] < At(lmList, At(tipIds, id) - 2)[3]
            THEN 1 ELSE 0
    IN  <<thumb, finger(1), finger(2), finger(3), finger(4)>>

----------------------------------------------------------------------------
(* OpenCV calls, applied at the probe pixels *)

Abs(n) == IF n < 0 THEN -n ELSE n

\* The largest s in lo..hi with s * s <= n (lo * lo <= n is given).
RECURSIVE SqrtSearch(_, _, _)
SqrtSearch(n, lo, hi) ==
    IF lo >= hi THEN lo
    ELSE LET mid == (lo + hi + 1) \div 2
         IN  IF mid * mid <= n THEN SqrtSearch(n, mid, hi)
             ELSE SqrtSearch(n, lo, mid - 1)

ISqrt(n) == SqrtSearch(n, 0, 40000)

\* Whether pixel q is painted by a line of the given thickness from a to b:
\* q is within thickness/2 of the segment (round caps, as cv2.line draws).
Covers(a, b, q, thickness) ==
    LET r     == thickness \div 2
        dx    == b[1] - a[1]
        dy    == b[2] - a[2]
        px    == q[1] - a[1]
        py    == q[2] - a[2]
        len2  == dx * dx + dy * dy
        dot   == px * dx + py * dy
        cross == dx * py - dy * px
    IN  IF len2 = 0 \/ dot <= 0
        THEN px * px + py * py <= r * r
        ELSE IF dot >= len2
        THEN (q[1] - b[1]) * (q[1] - b[1]) + (q[2] - b[2]) * (q[2] - b[2]) <= r * r
        ELSE Abs(cross) <= ISqrt(r * r * len2)

\* cv2.line(image, a, b, color, thickness)
Line(image, a, b, color, thickness) ==
    [q \in DOMAIN image |->
        IF Covers(a, b, q, thickness) THEN color ELSE image[q]]

\* cv2.circle(image, center, radius, color, cv2.FILLED)
Circle(image, center, radius, color) ==
    [q \in DOMAIN image |->
        IF (q[1] - center[1]) * (q[1] - center[1])
           + (q[2] - center[2]) * (q[2] - center[2]) <= radius * radius
        THEN color ELSE image[q]]

Min(a, b) == IF a < b THEN a ELSE b
Max(a, b) == IF a > b THEN a ELSE b

\* cv2.rectangle(image, c1, c2, color, cv2.FILLED): both corners inclusive
Rectangle(image, c1, c2, color) ==
    [q \in DOMAIN image |->
        IF /\ Min(c1[1], c2[1]) <= q[1] /\ q[1] <= Max(c1[1], c2[1])
           /\ Min(c1[2], c2[2]) <= q[2] /\ q[2] <= Max(c1[2], c2[2])
        THEN color ELSE image[q]]

\* np.zeros(img_canvas.shape, np.uint8)
Zeros(image) == [q \in DOMAIN image |-> Black]

\* Bitwise and / or of two bytes, bit by bit from the lowest.
RECURSIVE BitAnd(_, _)
BitAnd(a, b) ==
    IF a = 0 \/ b = 0 THEN 0
    ELSE (a % 2) * (b % 2) + 2 * BitAnd(a \div 2, b \div 2)

RECURSIVE BitOr(_, _)
BitOr(a, b) ==
    IF a = 0 THEN b
    ELSE IF b = 0 THEN a
    ELSE Max(a % 2, b % 2) + 2 * BitOr(a \div 2, b \div 2)

\* cv2.cvtColor(., cv2.COLOR_BGR2GRAY) of one 8-bit pixel: OpenCV's fixed-point
\* luminance 0.114 B + 0.587 G + 0.299 R, rounded.
Gray(c) == (c[1] * 1868 + c[2] * 9617 + c[3] * 4899 + 8192) \div 16384

\* The threshold without the inversion (cv2.THRESH_BINARY).
ThresholdInv_NotInverted(g) == IF g > 50 THEN 255 ELSE 0

\* cv2.threshold(., 50, 255, cv2.THRESH_BINARY_INV) of one pixel
ThresholdInv(g) == IF g > 50 THEN 0 ELSE 255

\* cv2.cvtColor(., cv2.COLOR_GRAY2BGR) of one pixel
GrayToBGR(g) == <<g, g, g>>

----------------------------------------------------------------------------
(* VirtualPainter.py *)

\* overlay_list: the four header images read from the header folder.  The
\* image files are assets outside the source; each is taken as a uniformly
\* coloured image of the toolbar's size.
overlay_list ==
    <<[shape |-> <<125, 1280>>, pixel |-> <<60, 60, 60>>],
      [shape |-> <<125, 1280>>, pixel |-> <<100, 60, 60>>],
      [shape |-> <<125, 1280>>, pixel |-> <<140, 60, 60>>],
      [shape |-> <<125, 1280>>, pixel |-> <<180, 60, 60>>]>>

\* SelectionMode with the colours of regions 1 and 2 exchanged.
SelectionMode_SwappedColours(s, x1, y1, x2, y2) ==
    LET region ==
            IF y1 < 100
            THEN IF 60 < x1 /\ x1 < 230 THEN 0
                 ELSE IF 380 < x1 /\ x1 < 550 THEN 1
                 ELSE IF 700 < x1 /\ x1 < 870 THEN 2
                 ELSE IF 1030 < x1 /\ x1 < 1250 THEN 3
                 ELSE -1
            ELSE -1
        color ==
            CASE region = 0 -> <<0, 0, 255>>
              [] region = 1 -> <<0, 255, 0>>
              [] region = 2 -> <<255, 0, 0>>
              [] region = 3 -> <<0, 0, 0>>
              [] OTHER      -> s.draw_color
        hdr == IF region >= 0 THEN region ELSE s.header
    IN  [s EXCEPT !.last = NoPoint,
                  !.header = hdr,
                  !.draw_color = color,
                  !.img = Rectangle(s.img, <<x1, y1 - 25>>, <<x2, y2 + 25>>, color)]

\* SelectionMode without the reset of the last point.
SelectionMode_KeepsLast(s, x1, y1, x2, y2) ==
    LET region ==
            IF y1 < 100
            THEN IF 60 < x1 /\ x1 < 230 THEN 0
                 ELSE IF 380 < x1 /\ x1 < 550 THEN 1
                 ELSE IF 700 < x1 /\ x1 < 870 THEN 2
                 ELSE IF 1030 < x1 /\ x1 < 1250 THEN 3
                 ELSE -1
            ELSE -1
        color ==
            CASE region = 0 -> <<0, 0, 255>>
              [] region = 1 -> <<255, 0, 0>>
              [] region = 2 -> <<0, 255, 0>>
              [] region = 3 -> <<0, 0, 0>>
              [] OTHER      -> s.draw_color
        hdr == IF region >= 0 THEN region ELSE s.header
    IN  [s EXCEPT !.header = hdr,
                  !.draw_color = color,
                  !.img = Rectangle(s.img, <<x1, y1 - 25>>, <<x2, y2 + 25>>, color)]

\* SelectionMode with inclusive bounds for the toolbar regions.
SelectionMode_InclusiveBounds(s, x1, y1, x2, y2) ==
    LET region ==
            IF y1 <= 100
            THEN IF 60 <= x1 /\ x1 <= 230 THEN 0
                 ELSE IF 380 <= x1 /\ x1 <= 550 THEN 1
                 ELSE IF 700 <= x1 /\ x1 <= 870 THEN 2
                 ELSE IF 1030 <= x1 /\ x1 <= 1250 THEN 3
                 ELSE -1
            ELSE -1
        color ==
            CASE region = 0 -> <<0, 0, 255>>
              [] region = 1 -> <<255, 0, 0>>
              [] region = 2 -> <<0, 255, 0>>
              [] region = 3 -> <<0, 0, 0>>
              [] OTHER      -> s.draw_color
        hdr == IF region >= 0 THEN region ELSE s.header
    IN  [s EXCEPT !.last = NoPoint,
                  !.header = hdr,
                  !.draw_color = color,
                  !.img = Rectangle(s.img, <<x1, y1 - 25>>, <<x2, y2 + 25>>, color)]

\* SelectionMode that sets the colour of the region but not the header.
SelectionMode_KeepsHeader(s, x1, y1, x2, y2) ==
    LET region ==
            IF y1 < 100
            THEN IF 60 < x1 /\ x1 < 230 THEN 0
                 ELSE IF 380 < x1 /\ x1 < 550 THEN 1
                 ELSE IF 700 < x1 /\ x1 < 870 THEN 2
                 ELSE IF 1030 < x1 /\ x1 < 1250 THEN 3
                 ELSE -1
            ELSE -1
        color ==
            CASE region = 0 -> <<0, 0, 255>>
              [] region = 1 -> <<255, 0, 0>>
              [] region = 2 -> <<0, 255, 0>>
              [] region = 3 -> <<0, 0, 0>>
              [] OTHER      -> s.draw_color
        hdr == IF region >= 0 THEN region ELSE s.header
    IN  [s EXCEPT !.last = NoPoint,
                  !.draw_color = color,
                  !.img = Rectangle(s.img, <<x1, y1 - 25>>, <<x2, y2 + 25>>, color)]

\* Lines 47-62, the selection branch, on the loop's variables s for a hand
\* with index fingertip (x1, y1) and middle fingertip (x2, y2).
SelectionMode(s, x1, y1, x2, y2) ==
    LET region ==
            IF y1 < 100
            THEN IF 60 < x1 /\ x1 < 230 THEN 0
                 ELSE IF 380 < x1 /\ x1 < 550 THEN 1
                 ELSE IF 700 < x1 /\ x1 < 870 THEN 2
                 ELSE IF 1030 < x1 /\ x1 < 1250 THEN 3
                 ELSE -1
            ELSE -1
        color ==
            CASE region = 0 -> <<0, 0, 255>>
              [] region = 1 -> <<255, 0, 0>>
              [] region = 2 -> <<0, 255, 0>>
              [] region = 3 -> <<0, 0, 0>>
              [] OTHER      -> s.draw_color
        hdr == IF region >= 0 THEN region ELSE s.header
    IN  [s EXCEPT !.last = NoPoint,
                  !.header = hdr,
                  !.draw_color = color,
                  !.img = Rectangle(s.img, <<x1, y1 - 25>>, <<x2, y2 + 25>>, color)]

\* DrawMode without the test for a null last point: the first segment of a
\* stroke starts at (0, 0).
DrawMode_FromLast(s, x1, y1) ==
    [s EXCEPT !.img = Circle(s.img, <<x1, y1>>, POINTER_THICKNESS, s.draw_color),
              !.img_canvas = Line(s.img_canvas, s.last, <<x1, y1>>,
                                  s.draw_color, POINTER_THICKNESS),
              !.lineCalls = Append(s.lineCalls,
                                   [from |-> s.last, to |-> <<x1, y1>>,
                                    color |-> s.draw_color]),
              !.last = <<x1, y1>>]

\* DrawMode drawing each segment on an empty canvas instead of the kept one.
DrawMode_FreshCanvas(s, x1, y1) ==
    LET from == IF s.last[1] = 0 /\ s.last[2] = 0 THEN <<x1, y1>> ELSE s.last
    IN  [s EXCEPT !.img = Circle(s.img, <<x1, y1>>, POINTER_THICKNESS, s.draw_color),
                  !.img_canvas = Line(Zeros(s.img_canvas), from, <<x1, y1>>,
                                      s.draw_color, POINTER_THICKNESS),
                  !.lineCalls = Append(s.lineCalls,
                                       [from |-> from, to |-> <<x1, y1>>,
                                        color |-> s.draw_color]),
                  !.last = <<x1, y1>>]

\* Lines 64-69, the draw branch.
DrawMode(s, x1, y1) ==
    LET from == IF s.last[1] = 0 /\ s.last[2] = 0 THEN <<x1, y1>> ELSE s.last
    IN  [s EXCEPT !.img = Circle(s.img, <<x1, y1>>, POINTER_THICKNESS, s.draw_color),
                  !.img_canvas = Line(s.img_canvas, from, <<x1, y1>>,
                                      s.draw_color, POINTER_THICKNESS),
                  !.lineCalls = Append(s.lineCalls,
                                       [from |-> from, to |-> <<x1, y1>>,
                                        color |-> s.draw_color]),
                  !.last = <<x1, y1>>]

\* A clear that is no projection: it turns background pixels white and
\* painted pixels to background.
ClearCheck_Toggle(s, fingers_up) ==
    IF \A i \in 1..Len(fingers_up) : fingers_up[i] >= 1
    THEN [s EXCEPT !.img_canvas = [q \in DOMAIN s.img_canvas |->
                                      IF s.img_canvas[q] = Black
                                      THEN <<255, 255, 255>> ELSE Black],
                   !.cleared = s.img_canvas]
    ELSE s

\* The clear check with any() for all(): one raised finger clears.
ClearCheck_Any(s, fingers_up) ==
    IF \E i \in 1..Len(fingers_up) : fingers_up[i] >= 1
    THEN [s EXCEPT !.img_canvas = Zeros(s.img_canvas), !.cleared = s.img_canvas]
    ELSE s

\* Lines 71-72, the clear check.
ClearCheck(s, fingers_up) ==
    IF \A i \in 1..Len(fingers_up) : fingers_up[i] >= 1
    THEN [s EXCEPT !.img_canvas = Zeros(s.img_canvas), !.cleared = s.img_canvas]
    ELSE s

\* HandleGestures with the clear check as a third branch of the if/elif
\* chain: it never runs when the selection or the draw branch did.
HandleGestures_ClearAsElif(s, lm) ==
    IF Len(lm) > 0
    THEN LET fingers_up == fingersUp(lm)
             x1 == At(lm, At(tipIds, 1))[2]
             y1 == At(lm, At(tipIds, 1))[3]
             x2 == At(lm, At(tipIds, 2))[2]
             y2 == At(lm, At(tipIds, 2))[3]
         IN  IF At(fingers_up, 1) = 1 /\ At(fingers_up, 2) = 1
             THEN SelectionMode(s, x1, y1, x2, y2)
             ELSE IF At(fingers_up, 1) = 1 /\ At(fingers_up, 2) # 1
             THEN DrawMode(s, x1, y1)
             ELSE ClearCheck(s, fingers_up)
    ELSE s

\* HandleGestures with the clear check first and exclusive: with all five
\* fingers up only the clear runs.
HandleGestures_ClearFirst(s, lm) ==
    IF Len(lm) > 0
    THEN LET fingers_up == fingersUp(lm)
             x1 == At(lm, At(tipIds, 1))[2]
             y1 == At(lm, At(tipIds, 1))[3]
             x2 == At(lm, At(tipIds, 2))[2]
             y2 == At(lm, At(tipIds, 2))[3]
         IN  IF \A i \in 1..Len(fingers_up) : fingers_up[i] >= 1
             THEN [ClearCheck(s, fingers_up) EXCEPT !.last = NoPoint]
             ELSE IF At(fingers_up, 1) = 1 /\ At(fingers_up, 2) = 1
             THEN SelectionMode(s, x1, y1, x2, y2)
             ELSE IF At(fingers_up, 1) = 1 /\ At(fingers_up, 2) # 1
             THEN DrawMode(s, x1, y1)
             ELSE s
    ELSE s

\* Lines 41-72, the gesture handling of one frame.
HandleGestures(s, lm) ==
    IF Len(lm) > 0
    THEN LET fingers_up == fingersUp(lm)
             x1 == At(lm, At(tipIds, 1))[2]
             y1 == At(lm, At(tipIds, 1))[3]
             x2 == At(lm, At(tipIds, 2))[2]
             y2 == At(lm, At(tipIds, 2))[3]
             t  == IF At(fingers_up, 1) = 1 /\ At(fingers_up, 2) = 1
                   THEN SelectionMode(s, x1, y1, x2, y2)
                   ELSE IF At(fingers_up, 1) = 1 /\ At(fingers_up, 2) # 1
                   THEN DrawMode(s, x1, y1)
                   ELSE s
         IN  ClearCheck(t, fingers_up)
    ELSE s

\* Line 75: img[0:header.shape[0], 0:header.shape[1]] = header
PasteHeader(image, hdr) ==
    [q \in DOMAIN image |->
        IF q[2] < hdr.shape[1] /\ q[1] < hdr.shape[2] THEN hdr.pixel ELSE image[q]]

\* Lines 76-80: the canvas is laid over the image through the inverse mask.
MergeCanvas(image, canvas) ==
    LET img_gray == [q \in DOMAIN canvas |-> Gray(canvas[q])]
        img_inv  == [q \in DOMAIN canvas |-> GrayToBGR(ThresholdInv(img_gray[q]))]
        anded    == [q \in DOMAIN image |->
                        [c \in 1..3 |-> BitAnd(image[q][c], img_inv[q][c])]]
    IN  [q \in DOMAIN image |->
            [c \in 1..3 |-> BitOr(anded[q][c], canvas[q][c])]]

\* Lines 74-80
Merge(s) ==
    [s EXCEPT !.img = MergeCanvas(PasteHeader(s.img, At(overlay_list, s.header)),
                                  s.img_canvas)]

\* History of the most recent frame with a hand: which branch ran, where the
\* index fingertip was, and whether the frame began with no last point.
PenOf(lm, lastBefore, old) ==
    IF Len(lm) = 0 THEN old
    ELSE LET f == fingersUp(lm)
         IN  IF At(f, 1) = 1 /\ At(f, 2) = 1
             THEN [mode |-> "select", at |-> NoPoint, fresh |-> FALSE]
             ELSE IF At(f, 1) = 1
             THEN [mode |-> "draw",
                   at |-> <<At(lm, 8)[2], At(lm, 8)[3]>>,
                   fresh |-> (lastBefore = NoPoint)]
             ELSE [mode |-> "idle", at |-> NoPoint, fresh |-> FALSE]

\* One iteration of the main loop (lines 30-80) on the hand `lm` (<<>> when no
\* hand is detected) and a camera frame of pixel value `cam`.
Frame(lm, cam) ==
    \E s1 \in { Merge(HandleGestures(
                    [img |-> [q \in Probes |-> cam], img_canvas |-> img_canvas,
                     last |-> last, header |-> header, draw_color |-> draw_color,
                     lineCalls |-> <<>>, cleared |-> <<>>], lm)) } :
        /\ landmark_list' = lm
        /\ camera' = cam
        /\ img' = s1.img
        /\ img_canvas' = s1.img_canvas
        /\ last' = s1.last
        /\ draw_color' = s1.draw_color
        /\ header' = s1.header
        /\ lineCalls' = s1.lineCalls
        /\ cleared' = s1.cleared
        /\ pen' = PenOf(lm, last, pen)
        /\ clearedTwice' = (cleared # <<>> /\ s1.cleared # <<>>)

\* Lines 15-16 and 25-26, before the first frame.
Init ==
    /\ landmark_list = <<>>
    /\ camera = Black
    /\ img = <<>>
    /\ img_canvas = [q \in Probes |-> Black]
    /\ last = NoPoint
    /\ draw_color = <<0, 0, 255>>
    /\ header = 0
    /\ lineCalls = <<>>
    /\ cleared = <<>>
    /\ pen = [mode |-> "none", at |-> NoPoint, fresh |-> FALSE]
    /\ clearedTwice = FALSE

\* The frames the camera delivers: <<hand landmarks, camera pixel value>>.
Scenes ==
    { <<<<>>, cam>> : cam \in EmptyCameraPixels }
    \cup { <<Hand(pose, p), CameraPixel(pose, p)>> : pose \in Poses, p \in Points }
    \cup { <<Hand(<<0, 1, 1, 0, 0>>, p), CameraPixel(<<0, 1, 1, 0, 0>>, p)>> :
                p \in EdgePoints }

Next == \E sc \in Scenes : Frame(sc[1], sc[2])

Spec == Init /\ [][Next]_vars

\* drawLandmarks (line 37) has mediapipe draw the detected hand on img before
\* the gestures are handled.  Every classifier hand has landmark 8 on the
\* probe pixel (300, 300), so that pixel holds what draw_landmarks leaves at
\* a landmark: the colour of the connection 7-8 and of the landmark's border,
\* (224, 224, 224), or the landmark's own colour, (0, 0, 255); which of the
\* two depends on how the library rasterises its rings.
LandmarkPixels == { <<224, 224, 224>>, <<0, 0, 255>> }

\* The main loop on the classifier's hands; the followed pixel of the camera
\* frame is one the hand was drawn on.
NextFingers ==
    \E lm \in ClassifierHands, cam \in LandmarkPixels : Frame(lm, cam)

SpecFingers == Init /\ [][NextFingers]_vars

----------------------------------------------------------------------------
(* The frame a state is the result of *)

Detected == Len(landmark_list) > 0
Fingers == fingersUp(landmark_list)
IndexTip == <<At(landmark_list, 8)[2], At(landmark_list, 8)[3]>>

IsSelecting == Detected /\ Fingers[2] = 1 /\ Fingers[3] = 1
IsDrawing == Detected /\ Fingers[2] = 1 /\ Fingers[3] = 0
IsClearing == Detected /\ \A i \in 1..5 : Fingers[i] = 1
IsIdle == Detected /\ Fingers[2] = 0

\* The toolbar hit-region (0..3) a point lies in, -1 when in none.
HitRegion(p) ==
    IF p[2] >= 100 THEN -1
    ELSE IF 60 < p[1] /\ p[1] < 230 THEN 0
    ELSE IF 380 < p[1] /\ p[1] < 550 THEN 1
    ELSE IF 700 < p[1] /\ p[1] < 870 THEN 2
    ELSE IF 1030 < p[1] /\ p[1] < 1250 THEN 3
    ELSE -1

\* The colour bound to a hit-region.
RegionColor(k) ==
    CASE k = 0 -> <<0, 0, 255>>
      [] k = 1 -> <<255, 0, 0>>
      [] k = 2 -> <<0, 255, 0>>
      [] k = 3 -> <<0, 0, 0>>

\* Squared distance of two points.
Dist2(p, q) == (p[1] - q[1]) * (p[1] - q[1]) + (p[2] - q[2]) * (p[2] - q[2])

\* The pen's radius: half the pointer thickness.
PenRadius2 == (POINTER_THICKNESS \div 2) * (POINTER_THICKNESS \div 2)

----------------------------------------------------------------------------
(* Claims *)

\* C1 as stated: a Drawing frame that starts with no last point changes no
\* pixel of the stroke canvas and sets the last point to the index fingertip.
C1_FreshDrawingFrameDrawsNothing ==
    [][(last = NoPoint /\ IsDrawing')
        => (img_canvas' = img_canvas /\ last' = IndexTip')]_vars

\* C1 as amended: a Drawing frame that starts with no last point makes one
\* cv2.line call, the zero-length segment from the index fingertip to itself
\* in the active colour: every canvas pixel within the pen's radius of the
\* fingertip takes the active colour, every other pixel is unchanged, and the
\* last point becomes the fingertip.
C1_FreshDrawingFrameDrawsDot ==
    [][(last = NoPoint /\ IsDrawing')
        => /\ lineCalls' = <<[from |-> IndexTip', to |-> IndexTip',
                              color |-> draw_color]>>
           /\ \A q \in Probes :
                 img_canvas'[q] = IF Dist2(q, IndexTip') <= PenRadius2
                                  THEN draw_color ELSE img_canvas[q]
           /\ last' = IndexTip'
           /\ draw_color' = draw_color]_vars

\* C1's case: a stroke was just begun on a pixel that is followed, which now
\* has the active colour.
C1_Witness ==
    /\ IsDrawing /\ pen.fresh
    /\ IndexTip = <<100, 50>>
    /\ img_canvas[<<100, 50>>] = draw_color
    /\ draw_color # Black
    /\ last = IndexTip

\* C2: when a Drawing frame at p1 started with no last point and the next
\* frame with a hand is a Drawing frame at p2, that frame draws exactly one
\* segment, from p1 to p2 in the active colour, and leaves the last point p2.
C2_SecondFrameDrawsSegment ==
    [][(pen.mode = "draw" /\ pen.fresh /\ IsDrawing')
        => /\ lineCalls' = <<[from |-> pen.at, to |-> IndexTip',
                              color |-> draw_color]>>
           /\ last' = IndexTip']_vars

\* C3: after every Idle frame the last point is null, so that a Drawing
\* frame after Idle frames draws no segment from the point before them.
C3_IdleFrameResetsLastPoint ==
    [][/\ IsIdle' => last' = NoPoint
       /\ (pen.mode = "idle" /\ IsDrawing')
            => lineCalls' = <<[from |-> IndexTip', to |-> IndexTip',
                               color |-> draw_color]>>]_vars

\* C4: after a frame with a hand and all five fingers up, every pixel of the
\* stroke canvas is background and the last point is null.
C4_AllFingersUpClears ==
    IsClearing => /\ \A q \in Probes : img_canvas[q] = Black
                  /\ last = NoPoint

\* C4's case: a frame with all five fingers up, the index fingertip in the
\* drawing area, wiped a canvas that held paint.
C4_Witness ==
    /\ IsClearing /\ IndexTip = <<280, 300>>
    /\ cleared # <<>>
    /\ cleared[<<100, 50>>] # Black /\ cleared[<<300, 300>>] # Black

\* C5 as stated: a frame with all five fingers up leaves the active colour
\* and the selected header unchanged, wherever the index fingertip is.
C5_ClearingLeavesSelection ==
    [][IsClearing' => (draw_color' = draw_color /\ header' = header)]_vars

\* C5 as amended: on a frame with all five fingers up the selection branch
\* runs before the clear: with the index fingertip inside hit-region k the
\* selected header becomes k and the active colour region k's colour; they are
\* unchanged only when the fingertip is in no hit-region.
C5_ClearingAlsoSelects ==
    [][IsClearing'
        => IF HitRegion(IndexTip') >= 0
           THEN /\ header' = HitRegion(IndexTip')
                /\ draw_color' = RegionColor(HitRegion(IndexTip'))
           ELSE /\ header' = header
                /\ draw_color' = draw_color]_vars

\* C5's case: a frame with all five fingers up and the fingertip in
\* hit-region 1 has cleared the canvas and selected region 1.
C5_Witness ==
    /\ IsClearing /\ cleared # <<>>
    /\ IndexTip = <<400, 50>>
    /\ header = 1 /\ draw_color = <<255, 0, 0>>

\* The x-coordinates at and next to the inner edges of the four hit-regions,
\* and the y-coordinates of the toolbar band's first, a middle and last row.
RegionInnerXs == { 61, 100, 229, 381, 400, 549, 701, 800, 869, 1031, 1100, 1249 }
BandYs == { 0, 50, 99 }

\* C6: after a Selecting frame whose index fingertip is inside hit-region k,
\* the selected header is k and the active colour is region k's colour; and
\* from every reachable colour and header the selection branch gives region
\* k's values for every fingertip on the inner edges of region k.
C6_SelectingSetsRegion ==
    /\ (IsSelecting /\ HitRegion(IndexTip) >= 0)
        => /\ header = HitRegion(IndexTip)
           /\ draw_color = RegionColor(HitRegion(IndexTip))
    /\ \A x \in RegionInnerXs, y \in BandYs :
          \E t \in { SelectionMode(
                        [img |-> img_canvas, img_canvas |-> img_canvas,
                         last |-> last, header |-> header,
                         draw_color |-> draw_color,
                         lineCalls |-> <<>>, cleared |-> <<>>],
                        x, y, x + 40, y - 10) } :
              /\ HitRegion(<<x, y>>) \in 0..3
              /\ t.header = HitRegion(<<x, y>>)
              /\ t.draw_color = RegionColor(HitRegion(<<x, y>>))

\* C6's case: two fingers up at (400, 50) selected header 1 and colour
\* (255, 0, 0).
C6_Witness ==
    /\ IsSelecting /\ ~IsClearing
    /\ IndexTip = <<400, 50>>
    /\ header = 1 /\ draw_color = <<255, 0, 0>>

\* C7: a frame with no hand leaves the stroke canvas, the last point, the
\* active colour and the selected header unchanged; and a Drawing frame at
\* p1, no-hand frames, then a Drawing frame at p2 connects p1 to p2.
C7_NoHandFrameKeepsStroke ==
    [][/\ ~Detected' => /\ img_canvas' = img_canvas
                        /\ last' = last
                        /\ draw_color' = draw_color
                        /\ header' = header
       /\ (~Detected /\ pen.mode = "draw" /\ IsDrawing')
            => lineCalls' = <<[from |-> pen.at, to |-> IndexTip',
                               color |-> draw_color]>>]_vars

\* The part of C7 that is about the no-hand frame itself: it changes none of
\* the stroke canvas, the last point, the active colour, the selected header.
C7_NoHandFrameChangesNothing ==
    [][~Detected' => /\ img_canvas' = img_canvas
                     /\ last' = last
                     /\ draw_color' = draw_color
                     /\ header' = header]_vars

\* C8 as stated: in a frame that is not a Clearing frame no painted pixel of
\* the stroke canvas becomes background.
C8_AppendOnly ==
    [][~IsClearing'
        => \A q \in Probes : img_canvas[q] # Black => img_canvas'[q] # Black]_vars

\* C8 as amended: in a frame that is not a Clearing frame and is not a
\* Drawing frame with active colour (0, 0, 0), no painted pixel of the stroke
\* canvas becomes background.
C8_AppendOnlyExceptBlack ==
    [][(~IsClearing' /\ ~(IsDrawing' /\ draw_color = Black))
        => \A q \in Probes : img_canvas[q] # Black => img_canvas'[q] # Black]_vars

\* C8's case: a green stroke was drawn over one followed pixel while the
\* other one keeps its red paint.
C8_Witness ==
    /\ IsDrawing
    /\ draw_color = <<0, 255, 0>>
    /\ img_canvas[<<100, 50>>] = <<0, 255, 0>>
    /\ img_canvas[<<300, 300>>] = <<0, 0, 255>>

\* The header rectangle of the selected header image.
InHeader(q) ==
    /\ q[2] < At(overlay_list, header).shape[1]
    /\ q[1] < At(overlay_list, header).shape[2]

\* C9: in the shown frame a painted canvas pixel has exactly its stroke
\* colour, and where the canvas is background the camera pixel shows through
\* (outside the header rectangle, in a frame that draws no cursor).
C9_CompositeExact ==
    img # <<>>
        => \A q \in Probes :
              /\ img_canvas[q] # Black => img[q] = img_canvas[q]
              /\ (img_canvas[q] = Black /\ ~InHeader(q) /\ ~Detected)
                    => img[q] = camera

\* C10: in every shown frame each pixel of the header rectangle is the pixel
\* of the selected header image.
C10_HeaderShownExactly ==
    img # <<>>
        => \A q \in Probes :
              InHeader(q) => img[q] = At(overlay_list, header).pixel

\* Coordinates of landmark id in the frame's landmark list.
LmX(id) == landmark_list[id + 1][2]
LmY(id) == landmark_list[id + 1][3]

\* C11: each of the four non-thumb fingers (tips 8, 12, 16, 20) is up iff
\* the tip's y is strictly less than the y of the landmark two below it, the
\* classifier gives five values for every hand, and the loop acts on them: it
\* draws exactly when the index is up and the middle finger down by that rule.
C11_FingerUpIffTipStrictlyAbove ==
    Detected
        => /\ Len(Fingers) = 5
           /\ \A i \in 1..4 :
                 Fingers[i + 1] = IF LmY(4 * i + 4) < LmY(4 * i + 2) THEN 1 ELSE 0
           /\ (lineCalls # <<>>) <=> (LmY(8) < LmY(6) /\ ~(LmY(12) < LmY(10)))

\* C11's case: the index tip level with landmark 6 is down, the middle tip
\* above landmark 10 is up, and the frame drew nothing.
C11_Witness ==
    /\ Detected
    /\ LmY(8) = LmY(6) /\ Fingers[2] = 0
    /\ LmY(12) < LmY(10) /\ Fingers[3] = 1
    /\ lineCalls = <<>>

\* C12: with x of landmark 4 less than x of landmark 20 the thumb is up iff
\* x of landmark 4 is less than x of landmark 3; otherwise (equal included) it
\* is up iff x of landmark 4 is greater than x of landmark 3; equal x of
\* landmarks 4 and 3 gives down; x4 = 50, x20 = 200, x3 = 60 gives up.  The
\* loop's clear runs exactly when the thumb by this rule and the four fingers
\* are up.
C12_ThumbTwoBranches ==
    Detected
        => /\ Fingers[1] = IF LmX(4) < LmX(20)
                           THEN (IF LmX(4) < LmX(3) THEN 1 ELSE 0)
                           ELSE (IF LmX(4) > LmX(3) THEN 1 ELSE 0)
           /\ LmX(4) = LmX(3) => Fingers[1] = 0
           /\ (LmX(4) = 50 /\ LmX(20) = 200 /\ LmX(3) = 60) => Fingers[1] = 1
           /\ (cleared # <<>>)
                <=> /\ IF LmX(4) < LmX(20) THEN LmX(4) < LmX(3)
                                           ELSE LmX(4) > LmX(3)
                    /\ \A i \in 1..4 : LmY(4 * i + 4) < LmY(4 * i + 2)

\* C12's case: thumb tip level with the pinky tip (the second branch) and
\* right of landmark 3 is up; with the four fingers up the frame cleared.
C12_Witness ==
    /\ Detected
    /\ LmX(4) = LmX(20) /\ LmX(4) > LmX(3)
    /\ Fingers = <<1, 1, 1, 1, 1>>
    /\ cleared # <<>>

\* The live frame of the current state as the gesture handling leaves it:
\* the camera frame with the frame's cursor, a rectangle between the two
\* fingertips when selecting and a disc at the index fingertip when drawing.
LiveFrame ==
    LET base == [q \in Probes |-> camera]
    IN  IF ~Detected THEN base
        ELSE IF IsSelecting
        THEN Rectangle(base, <<LmX(8), LmY(8) - 25>>, <<LmX(12), LmY(12) + 25>>,
                       draw_color)
        ELSE IF IsDrawing
        THEN Circle(base, IndexTip, POINTER_THICKNESS, draw_color)
        ELSE base

\* Channel values of live pixels on both sides of the mask threshold.
LivePixels == { <<b, g, r>> : b \in {0, 50, 51, 255}, g \in {0, 50, 51, 255},
                              r \in {0, 50, 51, 255} }

\* C13: when the stroke canvas is entirely background, the shown frame is
\* the live frame unchanged at every pixel outside the header rectangle and
\* the header image inside it; and merging an all-background canvas onto a
\* frame of any pixel value gives that frame back.
C13_BackgroundCanvasPassesLiveFrame ==
    /\ (img # <<>> /\ \A q \in Probes : img_canvas[q] = Black)
          => \A q \in Probes :
                img[q] = IF InHeader(q) THEN At(overlay_list, header).pixel
                         ELSE LiveFrame[q]
    /\ \A v \in LivePixels :
          MergeCanvas([q \in Probes |-> v], [q \in Probes |-> Black])
              = [q \in Probes |-> v]

\* C13's case: a selecting frame over a background canvas shows its cursor
\* rectangle, not the camera pixel, at (300, 300) and the header at (100, 50).
C13_Witness ==
    /\ IsSelecting
    /\ \A q \in Probes : img_canvas[q] = Black
    /\ header = 2
    /\ camera # draw_color
    /\ img[<<300, 300>>] = draw_color
    /\ img[<<100, 50>>] = At(overlay_list, 2).pixel

\* C14: a Clearing frame (all five fingers up) that follows a Clearing
\* frame leaves the stroke canvas and the last point as the first one left
\* them: the canvas all background and the last point null.
C14_ClearIdempotent ==
    [][(IsClearing /\ IsClearing')
        => /\ img_canvas' = img_canvas
           /\ last' = last
           /\ \A q \in Probes : img_canvas'[q] = Black
           /\ last' = NoPoint]_vars

\* C14's case: the clear ran in two consecutive frames; the second one wiped
\* the background canvas the first one left.
C14_Witness ==
    /\ clearedTwice
    /\ IsClearing
    /\ cleared = [q \in Probes |-> Black]
    /\ img_canvas = [q \in Probes |-> Black]
    /\ last = NoPoint

\* C15: every Selecting frame (index and middle up) leaves the last point
\* null, draws no segment, and leaves the canvas as it was unless all five
\* fingers are up; a Drawing frame at p2 right after a Selecting frame draws
\* one segment, from p2 to p2, so nothing from an earlier point p1 to p2.
C15_SelectingLiftsPen ==
    [][/\ IsSelecting'
            => /\ last' = NoPoint
               /\ lineCalls' = <<>>
               /\ ~IsClearing' => img_canvas' = img_canvas
       /\ (IsSelecting /\ IsDrawing')
            => /\ lineCalls' = <<[from |-> IndexTip', to |-> IndexTip',
                                  color |-> draw_color]>>
               /\ \A q \in Probes :
                     img_canvas'[q] = IF Dist2(q, IndexTip') <= PenRadius2
                                      THEN draw_color ELSE img_canvas[q]]_vars

\* C15's case: a Selecting frame without all fingers up, after a stroke was
\* drawn: the stroke is still on the canvas and the last point is null.
C15_Witness ==
    /\ IsSelecting /\ ~IsClearing
    /\ img_canvas[<<100, 50>>] # Black
    /\ last = NoPoint
    /\ pen.mode = "select"

\* C16: the clear check runs in a frame exactly when all five fingers are
\* up, after the selection branch: a frame with all five fingers up and the
\* index fingertip inside hit-region k selects header k and region k's
\* colour, nulls the last point, draws nothing, and wipes the canvas the
\* selection left untouched; the shown frame has header k.
C16_SelectThenClearInOneFrame ==
    [][/\ (cleared' # <<>>) <=> IsClearing'
       /\ (IsClearing' /\ HitRegion(IndexTip') >= 0)
            => /\ header' = HitRegion(IndexTip')
               /\ draw_color' = RegionColor(HitRegion(IndexTip'))
               /\ last' = NoPoint
               /\ lineCalls' = <<>>
               /\ cleared' = img_canvas
               /\ \A q \in Probes : img_canvas'[q] = Black
               /\ img'[<<100, 50>>]
                    = At(overlay_list, HitRegion(IndexTip')).pixel]_vars

\* C16's case: all five fingers up at (800, 50) selected region 2 and wiped
\* a painted canvas in the same frame.
C16_Witness ==
    /\ IsClearing
    /\ IndexTip = <<800, 50>>
    /\ header = 2 /\ draw_color = <<0, 255, 0>>
    /\ last = NoPoint
    /\ cleared # <<>>
    /\ cleared[<<100, 50>>] # Black
    /\ \A q \in Probes : img_canvas[q] = Black

\* Index fingertips of the toolbar band that are in no hit-region: on the
\* eight x-bounds of the regions, between and beside the regions, and on the
\* first row below the band under each region.
OutsideTips ==
    { <<x, 50>> : x \in { 60, 230, 380, 550, 700, 870, 1030, 1250 } }
    \cup { <<x, 99>> : x \in { 0, 300, 600, 1000, 1279 } }
    \cup { <<x, 100>> : x \in { 100, 400, 800, 1100 } }

\* C17: the active colour and the selected header are changed by no frame
\* other than a Selecting frame with the index fingertip inside a hit-region:
\* not by a Drawing, Idle or no-hand frame, nor by a Selecting frame with the
\* fingertip at y >= 100 or outside the four open x-ranges; and the selection
\* branch leaves them alone for every fingertip on a bound of a region.
C17_SelectionChangesOnlyInsideRegion ==
    [][/\ ~(IsSelecting' /\ HitRegion(IndexTip') >= 0)
            => (draw_color' = draw_color /\ header' = header)
       /\ \A p \in OutsideTips :
             \E t \in { SelectionMode(
                           [img |-> img_canvas', img_canvas |-> img_canvas',
                            last |-> last', header |-> header',
                            draw_color |-> draw_color',
                            lineCalls |-> <<>>, cleared |-> <<>>],
                           p[1], p[2], p[1] + 40, p[2] - 10) } :
                 /\ HitRegion(p) = -1
                 /\ t.header = header'
                 /\ t.draw_color = draw_color']_vars

\* C17's case: a Selecting frame with the index fingertip on the bound
\* x = 60 of region 0 left another region's header and colour selected, and
\* a stroke made in that colour is on the canvas.
C17_Witness ==
    /\ IsSelecting
    /\ IndexTip = <<60, 50>>
    /\ header = 2 /\ draw_color = <<0, 255, 0>>
    /\ img_canvas[<<300, 300>>] = <<0, 255, 0>>

\* C18: in every state the selected header and the active colour are one
\* of the four bound pairs (0, (0,0,255)), (1, (255,0,0)), (2, (0,255,0)),
\* (3, (0,0,0)); before the first frame they are header 0 and red.
C18_HeaderAndColourBound ==
    /\ <<header, draw_color>> \in { <<0, <<0, 0, 255>> >>, <<1, <<255, 0, 0>> >>,
                                    <<2, <<0, 255, 0>> >>, <<3, <<0, 0, 0>> >> }
    /\ img = <<>> => (header = 0 /\ draw_color = <<0, 0, 255>>)

\* C18's case: after region 3 was selected, a Drawing frame draws with
\* (0, 0, 0) under header 3.
C18_Witness ==
    /\ header = 3 /\ draw_color = <<0, 0, 0>>
    /\ IsDrawing
    /\ lineCalls # <<>> /\ lineCalls[1].color = <<0, 0, 0>>

\* C19: no frame both draws on the stroke canvas and clears it, and a frame
\* that clears ran the selection branch: index and middle finger are up, the
\* last point is null and nothing was drawn.
C19_NeverDrawAndClear ==
    /\ ~(lineCalls # <<>> /\ cleared # <<>>)
    /\ lineCalls # <<>> => (IsDrawing /\ ~IsClearing)
    /\ cleared # <<>> => (IsSelecting /\ last = NoPoint /\ pen.mode = "select")

\* C19's case: a frame with every finger up but the middle one drew on the
\* canvas and did not clear it.
C19_Witness ==
    /\ Detected
    /\ Fingers = <<1, 1, 0, 1, 1>>
    /\ lineCalls # <<>>
    /\ cleared = <<>>
    /\ img_canvas[<<300, 300>>] = draw_color

====
